---- MODULE Spec2Model ----
(***************************************************************************)
(* Model of the Mandelbrot visualizer (Web VPython program): the Mandelbrot *)
(* object (view state, history stacks, geometry pools), the widget          *)
(* callbacks, and the points at which a callback yields to the browser      *)
(* event loop (rate / sleep), where other callbacks may run.                *)
(*                                                                          *)
(* Numbers of the program are floats; the model computes with exact         *)
(* rationals <<numerator, denominator>> (denominator > 0, lowest terms).    *)
(* Resolutions are the program's 2:3 presets scaled down (2x3, 4x6, ...).   *)
(***************************************************************************)
EXTENDS Integers, Sequences, FiniteSets, Bags, TLC

(* ------------------------------ bounds --------------------------------- *)
\* callbacks that may be suspended at a yield point at the same time
MaxTasks == 2
\* calls of change_parameters in one behaviour
MaxRenders == 3
\* the same in sequential use (SpecSeq)
MaxRendersSeq == 4
\* the same in sequential use of the mouse and the Undo and Redo buttons
\* (SpecHist)
MaxRendersHist == 6
\* the largest search depth of a pixel under study (SpecPixel)
MaxPixelDepth == 4
\* calls of change_parameters in a run of drags only (SpecDrag)
MaxRendersDrag == 2

(* --------------------------- rational numbers -------------------------- *)
Abs(a) == IF a < 0 THEN -a ELSE a

RECURSIVE GCD(_, _)
GCD(a, b) == IF b = 0 THEN a ELSE GCD(b, a % b)

Norm(n, d) ==
    LET s == IF d < 0 THEN -1 ELSE 1
        g == GCD(Abs(n), Abs(d))
    IN  <<(s * n) \div g, (s * d) \div g>>

R(n) == <<n, 1>>
RAdd(a, b) == Norm(a[1] * b[2] + b[1] * a[2], a[2] * b[2])
RSub(a, b) == Norm(a[1] * b[2] - b[1] * a[2], a[2] * b[2])
RMul(a, b) == Norm(a[1] * b[1], a[2] * b[2])
\* b is never zero where RDiv is used (a grid width or height, or a literal)
RDiv(a, b) == Norm(a[1] * b[2], a[2] * b[1])
RLt(a, b) == a[1] * b[2] < b[1] * a[2]
RLe(a, b) == a[1] * b[2] <= b[1] * a[2]
RMin(a, b) == IF RLe(a, b) THEN a ELSE b
RMax(a, b) == IF RLe(a, b) THEN b ELSE a
RAbs(a) == <<Abs(a[1]), a[2]>>

(* ------------------------- simulation globals -------------------------- *)
\* resolution_choices: [height, width] presets, all 2:3, scaled down
resolution_choices == << <<2, 3>>, <<4, 6>> >>

colormap_choices == <<"default", "inferno", "viridis", "spectral", "plasma">>
\* the entries of the colormap menu the model selects
ColormapMenu == {"default", "inferno"}

\* default arguments of Mandelbrot.__init__
InitMaxIter == 100
InitDimensions == <<R(-2), <<1, 2>>, R(-1), R(1)>>

Gray == "gray"
White == "white"

VARIABLES
    max_iter, x_min, x_max, y_min, y_max, height, width, colormap,
    loaded,
    geometry,
    dimensions_undo_list, dimensions_redo_list,
    mouse_1_up, undo_background, redo_background, loading_text_visible,
    tasks, error, renders,
    journal,
    sample

view == <<max_iter, x_min, x_max, y_min, y_max, height, width, colormap>>
history == <<dimensions_undo_list, dimensions_redo_list>>
widgets == <<undo_background, redo_background, loading_text_visible>>
prog == <<view, loaded, geometry, history, mouse_1_up, widgets, tasks, error, renders>>
vars == <<prog, journal, sample>>

(* --------------------------- geometry pools ---------------------------- *)
\* geometry holds the four object lists of the Mandelbrot object and the
\* fields of the objects in them. Vertices and quads are numbered in
\* creation order: vertex_pos[v] is vertex v's pos (x, y), quad_corners[q] is
\* quad q's <<v0, v1, v2, v3>>, quad_visible[q] its visible.
EmptyGeometry ==
    [rendered_vertices |-> <<>>, existing_vertices |-> <<>>,
     rendered_quads |-> <<>>, existing_quads |-> <<>>,
     vertex_pos |-> <<>>, quad_corners |-> <<>>, quad_visible |-> <<>>]

Front(s) == SubSeq(s, 1, Len(s) - 1)
Last(s) == s[Len(s)]

\* the elements of list s
Range(s) == {s[k] : k \in DOMAIN s}

\* quad.visible = False for every quad of the set quads
hide(quad_visible, quads) ==
    [q \in DOMAIN quad_visible |-> quad_visible[q] /\ q \notin quads]

\* __recycle_old_vertices leaving rendered_vertices and rendered_quads
\* uncleared: the recycled objects stay in the rendered lists too
recycle_old_vertices_keeps_rendered(G) ==
    [G EXCEPT
        !.existing_vertices = G.existing_vertices \o G.rendered_vertices,
        !.existing_quads = G.existing_quads \o G.rendered_quads,
        !.quad_visible = hide(G.quad_visible, Range(G.rendered_quads))]

\* __recycle_old_vertices that clears the rendered lists without first
\* appending their objects to the existing lists: the objects are lost
recycle_old_vertices_drops_rendered(G) ==
    [G EXCEPT
        !.quad_visible = hide(G.quad_visible, Range(G.rendered_quads)),
        !.rendered_vertices = <<>>,
        !.rendered_quads = <<>>]

\* Mandelbrot.__recycle_old_vertices
recycle_old_vertices(G) ==
    [G EXCEPT
        !.existing_vertices = G.existing_vertices \o G.rendered_vertices,
        !.existing_quads = G.existing_quads \o G.rendered_quads,
        !.quad_visible = hide(G.quad_visible, Range(G.rendered_quads)),
        !.rendered_vertices = <<>>,
        !.rendered_quads = <<>>]

\* One pass of the allocation loop of Mandelbrot.__load_fresh_objects: a
\* blank vertex, and a blank quad on it while there are fewer than
\* (height - 1) * width quads in existing_quads
blank_objects(G, blank_vertex, h, w) ==
    IF Len(G.existing_quads) < (h - 1) * w
    THEN [G EXCEPT
            !.vertex_pos = Append(G.vertex_pos, <<R(0), R(0)>>),
            !.existing_vertices = Append(G.existing_vertices, blank_vertex),
            !.quad_corners = Append(G.quad_corners, <<blank_vertex, blank_vertex,
                                                      blank_vertex, blank_vertex>>),
            !.quad_visible = Append(G.quad_visible, FALSE),
            !.existing_quads = Append(G.existing_quads, Len(G.quad_corners) + 1)]
    ELSE [G EXCEPT
            !.vertex_pos = Append(G.vertex_pos, <<R(0), R(0)>>),
            !.existing_vertices = Append(G.existing_vertices, blank_vertex)]

\* Mandelbrot.__load_fresh_objects, the allocation loop; h and w are
\* self.height and self.width when the loop runs
RECURSIVE load_fresh_objects(_, _, _, _)
load_fresh_objects(G, fresh_load_size, h, w) ==
    IF fresh_load_size <= 0 THEN G
    ELSE load_fresh_objects(blank_objects(G, Len(G.vertex_pos) + 1, h, w),
                            fresh_load_size - 1, h, w)

\* The inner loop body of Mandelbrot.__load_new_mandelbrot for pixel
\* (px, py), in two halves. S carries the geometry, the two column buffers
\* (0 is None) and err, which names the pop that found its list empty (the
\* exception that ends the render; what was moved before it stays moved).
\* First half: a vertex is taken from existing_vertices and placed.
render_vertex(S, px, py, h, w) ==
    IF Len(S.g.existing_vertices) = 0 THEN [S EXCEPT !.err = "existing_vertices.pop"]
    ELSE
        LET old_vertex == Last(S.g.existing_vertices)
        IN  [S EXCEPT
               !.cur[py + 1] = old_vertex,
               !.g.existing_vertices = Front(S.g.existing_vertices),
               !.g.vertex_pos[old_vertex] =
                   <<RSub(R(px), RDiv(R(w), R(2))),
                     RSub(R(py), RDiv(R(h), R(2)))>>,
               !.g.rendered_vertices = Append(S.g.rendered_vertices, old_vertex)]

\* Second half, for px > 0 and py > 0: a quad is taken from existing_quads
\* and set on the four vertices around the cell.
render_quad(S, py) ==
    IF Len(S.g.existing_quads) = 0 THEN [S EXCEPT !.err = "existing_quads.pop"]
    ELSE
        LET pixel == Last(S.g.existing_quads)
        IN  [S EXCEPT
               !.g.existing_quads = Front(S.g.existing_quads),
               !.g.quad_corners[pixel] = <<S.cur[py + 1], S.cur[py],
                                           S.prev[py], S.prev[py + 1]>>,
               !.g.quad_visible[pixel] = TRUE,
               !.g.rendered_quads = Append(S.g.rendered_quads, pixel)]

render_pixel(S, px, py, h, w) ==
    IF px > 0 /\ py > 0 /\ Len(S.g.existing_vertices) > 0
    THEN render_quad(render_vertex(S, px, py, h, w), py)
    ELSE render_vertex(S, px, py, h, w)

\* previous_col = current_col[:] after the last row of a column
next_column(S, py, h) ==
    IF py = h - 1 /\ S.err = "none" THEN [S EXCEPT !.prev = S.cur] ELSE S

\* The main rendering loop, column-major: pixel k is (k \div h, k % h).
RECURSIVE render_loop(_, _, _, _)
render_loop(S, k, h, w) ==
    IF k >= h * w \/ S.err # "none" THEN S
    ELSE render_loop(next_column(render_pixel(S, k \div h, k % h, h, w), k % h, h),
                     k + 1, h, w)

\* Mandelbrot.__load_new_mandelbrot: the geometry after the render, and
\* the pop that failed, if one did
load_new_mandelbrot(G, h, w) ==
    render_loop([g |-> G, cur |-> [i \in 1..h |-> 0],
                 prev |-> [i \in 1..h |-> 0], err |-> "none"], 0, h, w)

\* Geometry after Mandelbrot.__init__ with resolution [h, w]
InitGeometry(h, w) ==
    load_new_mandelbrot(load_fresh_objects(EmptyGeometry, h * w, h, w), h, w).g

(* ------------------------------ journal -------------------------------- *)
\* journal is a history variable: it records which calls of
\* change_parameters were made, and reads the program state without ever
\* changing it.
\*   chain         the calls so far are n zooms, then j undos (j <= n), then
\*                 i redos (i <= j), and nothing else
\*   zooms         while chain holds: Z0 (the initial view) and the views
\*                 Z1..Zn the zooms set
\*   undos, redos  while chain holds: j and i
\*   trip          "undo" after a successful undo, "redo" after a successful
\*                 redo that directly follows it, else "none"
\*   before        while trip is not "none": the viewport and the two lists
\*                 as they were when that undo was requested
\*   largest       the largest height * width requested so far, the initial
\*                 grid included
Viewport == <<x_min, x_max, y_min, y_max>>

NoJournal ==
    [chain |-> TRUE, zooms |-> <<InitDimensions>>, undos |-> 0, redos |-> 0,
     trip |-> "none", before |-> <<>>,
     largest |-> resolution_choices[1][1] * resolution_choices[1][2]]

\* the journal after a call of change_parameters made for operation op
\* ("zoom", "undo", "redo" or "settings")
Journal(op) ==
    LET chain == /\ journal.chain
                 /\ CASE op = "zoom" -> journal.undos = 0 /\ journal.redos = 0
                      [] op = "undo" -> /\ journal.redos = 0
                                        /\ journal.undos < Len(journal.zooms) - 1
                      [] op = "redo" -> journal.redos < journal.undos
                      [] OTHER -> FALSE
        trip == CASE op = "undo" -> "undo"
                  [] op = "redo" /\ journal.trip = "undo" -> "redo"
                  [] OTHER -> "none"
    IN  [chain |-> chain,
         zooms |-> IF ~chain THEN <<>>
                   ELSE IF op = "zoom" THEN Append(journal.zooms, Viewport')
                   ELSE journal.zooms,
         undos |-> IF chain /\ op = "undo" THEN journal.undos + 1
                   ELSE IF chain THEN journal.undos ELSE 0,
         redos |-> IF chain /\ op = "redo" THEN journal.redos + 1
                   ELSE IF chain THEN journal.redos ELSE 0,
         trip |-> trip,
         before |-> CASE trip = "undo" -> <<Viewport, dimensions_undo_list,
                                            dimensions_redo_list>>
                      [] trip = "redo" -> journal.before
                      [] OTHER -> <<>>,
         largest |-> IF height' * width' > journal.largest
                     THEN height' * width' ELSE journal.largest]

\* a step of the callback for operation op: journalled when it called
\* change_parameters
Record(op) ==
    journal' = IF renders' = renders THEN journal ELSE Journal(op)

(* ------------------------------- Init ---------------------------------- *)
\* A callback suspended at a yield point. pc is the yield it waits at:
\*   "drag"      rate(10) in the loop of resize_box
\*   "alloc"     sleep(0.1) at the start of __load_fresh_objects
\*   "render"    sleep(0.01) at the end of __load_fresh_objects
\*   "rendered"  sleep(0.1) at the end of __load_new_mandelbrot (resize_box)
\*   "recall_ui" the same sleep and the sleep(0.1) that follows it in
\*               recall_mandelbrot_dimensions
\* redo is evt.redo, start and opp are starting_mouse_pos and
\* opposite_corner_pos, fresh is fresh_load_size.
Origin == <<R(0), R(0)>>

Task(kind, pc, redo, start, opp, fresh) ==
    [kind |-> kind, pc |-> pc, redo |-> redo, start |-> start, opp |-> opp,
     fresh |-> fresh]

\* tasks is the bag of suspended callbacks (their order means nothing)
Suspend(ts, t) == ts (+) SetToBag({t})
Finish(ts, t) == ts (-) SetToBag({t})
Resume(ts, t, u) == Finish(ts, t) (+) SetToBag({u})

(* --------------------------- pixel colours ----------------------------- *)

\* A colour channel is a term: an exact number, or a function the rationals
\* cannot express (sin, sqrt, a power) applied to a term. Two equal terms
\* denote the same number.
Num(q) == <<"num", q>>
Sin(q) == <<"sin", q>>
Sqrt(q) == <<"sqrt", q>>
Pow(term, exponent) == <<"pow", term, exponent>>
Plus(term, q) == <<"plus", term, q>>
Times(term, q) == <<"times", term, q>>
Neg(term) == <<"neg", term>>
Sum(a, b) == <<"sum", a, b>>
AbsOf(term) == <<"abs", term>>
Raised == <<<<"raise", "ValueError">>, <<"raise", "ValueError">>, <<"raise", "ValueError">>>>

Square(q) == RMul(q, q)

colormaps_rejects_unknown(colors, cmap) == IF cmap = "default" THEN <<Pow(Sin(RAdd(colors[1], <<9, 10>>)), R(30)), Times(Pow(Sin(RAdd(colors[2], <<97, 100>>)), R(80)), <<9, 10>>), Plus(Neg(Pow(Plus(Pow(Num(RAdd(colors[3], <<1, 2>>)), R(6)), <<-4, 5>>), R(2))), R(1))>> ELSE Raised

\* colormaps(colors, cmap): an if/elif chain on the scheme name whose last
\* branch is a bare else.
colormaps(colors, cmap) ==
    LET x == colors[1]
        y == colors[2]
        z == colors[3]
    IN  IF cmap = "spectral" THEN
            << AbsOf(Sin(RAdd(RMul(R(100), x), R(1)))),
               Sin(RAdd(RMul(R(100), y), R(2))),
               Sin(RAdd(RMul(R(100), z), R(3))) >>
        ELSE IF cmap = "inferno" THEN
            << Sqrt(x),
               Num(Square(y)),
               Num(RAdd(RMul(R(-5), Square(RSub(z, <<1, 5>>))), <<1, 5>>)) >>
        ELSE IF cmap = "viridis" THEN
            << Pow(Sin(RAdd(x, <<1, 2>>)), R(16)),
               Num(y),
               Num(RAdd(RMul(R(-3), Square(RSub(z, <<19, 50>>))), <<3, 5>>)) >>
        ELSE IF cmap = "plasma" THEN
            << Sin(x),
               Plus(Sum(Pow(Num(y), R(10)), Pow(Num(y), <<1, 6>>)), <<-4, 5>>),
               Num(RAdd(RSub(R(0), z), R(1))) >>
        ELSE
            << Pow(Sin(RAdd(x, <<9, 10>>)), R(30)),
               Times(Pow(Sin(RAdd(y, <<97, 100>>)), R(80)), <<9, 10>>),
               Plus(Neg(Pow(Plus(Pow(Num(RAdd(z, <<1, 2>>)), R(6)), <<-4, 5>>), R(2))), R(1)) >>

Black == <<Num(R(0)), Num(R(0)), Num(R(0))>>

\* The complex point __load_new_mandelbrot assigns to pixel (px, py) of the
\* current view and grid; px and py are rationals here.
pixel_to_complex(px, py) ==
    LET center_x == RDiv(RAdd(x_min, x_max), R(2))
        center_y == RDiv(RAdd(y_min, y_max), R(2))
        view_width == RSub(x_max, x_min)
        view_height == RSub(y_max, y_min)
        zoom_x == RDiv(view_width, R(width))
        zoom_y == RDiv(view_height, R(height))
    IN  <<RAdd(center_x, RMul(RSub(px, RDiv(R(width), R(2))), zoom_x)),
          RAdd(center_y, RMul(RSub(py, RDiv(R(height), R(2))), zoom_y))>>

\* the pixel whose vertex is drawn at screen position s
pixel_at(s) == <<RAdd(s[1], RDiv(R(width), R(2))), RAdd(s[2], RDiv(R(height), R(2)))>>

\* The locals of one pass of the pixel loop of __load_new_mandelbrot.
NoPixel ==
    [pc |-> "idle", c_re |-> R(0), c_im |-> R(0), z_re |-> R(0), z_im |-> R(0),
     n |-> 0, max_iter |-> 1, cmap |-> "default", pixel_color |-> Black,
     colormaps_calls |-> 0]

\* sqrt(z_re**2 + z_im**2) <= 2 and n < max_iter; the square root is
\* monotone, so the first test is z_re**2 + z_im**2 <= 4.
in_loop(p) ==
    /\ RLe(RAdd(Square(p.z_re), Square(p.z_im)), R(4))
    /\ p.n < p.max_iter

iterate(p) ==
    [p EXCEPT !.z_re = RAdd(RSub(Square(p.z_re), Square(p.z_im)), p.c_re),
              !.z_im = RAdd(RMul(R(2), RMul(p.z_re, p.z_im)), p.c_im),
              !.n = p.n + 1]

color_value(p) == LET level == Norm(p.n, p.max_iter) IN <<level, level, level>>

assign_color_always_mapped(p) == [p EXCEPT !.pc = "done", !.pixel_color = colormaps(color_value(p), p.cmap), !.colormaps_calls = p.colormaps_calls + 1]

\* if n == max_iter: black, else colormaps(vec(1,1,1) * (n / max_iter), cmap)
assign_color(p) ==
    IF p.n = p.max_iter
    THEN [p EXCEPT !.pc = "done", !.pixel_color = Black]
    ELSE [p EXCEPT !.pc = "done",
                   !.pixel_color = colormaps(color_value(p), p.cmap),
                   !.colormaps_calls = p.colormaps_calls + 1]

\* The state after the module has run: Mandelbrot(resolution=...) built and
\* rendered, the widgets created. The program starts at a middle preset of
\* six; the model keeps two presets and starts at the smaller one.
Init ==
    LET r == 1 IN
        /\ max_iter = InitMaxIter
        /\ x_min = InitDimensions[1]
        /\ x_max = InitDimensions[2]
        /\ y_min = InitDimensions[3]
        /\ y_max = InitDimensions[4]
        /\ height = resolution_choices[r][1]
        /\ width = resolution_choices[r][2]
        /\ colormap = colormap_choices[1]
        /\ loaded = TRUE
        /\ geometry = InitGeometry(resolution_choices[r][1], resolution_choices[r][2])
        /\ dimensions_undo_list = <<InitDimensions>>
        /\ dimensions_redo_list = <<>>
        /\ mouse_1_up = TRUE
        /\ undo_background = Gray
        /\ redo_background = Gray
        /\ loading_text_visible = FALSE
        /\ tasks = EmptyBag
        /\ error = "none"
        /\ renders = 0
        /\ journal = NoJournal
        /\ sample = NoPixel

(* ------------------------ Mandelbrot methods --------------------------- *)
\* change_parameters without its push onto dimensions_undo_list
change_parameters_without_push(new_max_iter, image_dimensions, resolution, new_colormap, undo_now) ==
    /\ loaded' = FALSE
    /\ geometry' = recycle_old_vertices(geometry)
    /\ max_iter' = new_max_iter
    /\ x_min' = image_dimensions[1]
    /\ x_max' = image_dimensions[2]
    /\ y_min' = image_dimensions[3]
    /\ y_max' = image_dimensions[4]
    /\ height' = resolution[1]
    /\ width' = resolution[2]
    /\ colormap' = new_colormap
    /\ dimensions_undo_list' = undo_now
    /\ loading_text_visible' = TRUE
    /\ renders' = renders + 1

change_parameters_pushes_previous(new_max_iter, image_dimensions, resolution, new_colormap, undo_now) == loaded' = FALSE /\ geometry' = recycle_old_vertices(geometry) /\ max_iter' = new_max_iter /\ x_min' = image_dimensions[1] /\ x_max' = image_dimensions[2] /\ y_min' = image_dimensions[3] /\ y_max' = image_dimensions[4] /\ height' = resolution[1] /\ width' = resolution[2] /\ colormap' = new_colormap /\ dimensions_undo_list' = Append(undo_now, Viewport) /\ loading_text_visible' = TRUE /\ renders' = renders + 1

\* Mandelbrot.change_parameters up to its first yield (the sleep at the
\* start of __load_fresh_objects): everything but the task list. undo_now is
\* dimensions_undo_list as the caller left it.
change_parameters(new_max_iter, image_dimensions, resolution, new_colormap, undo_now) ==
    /\ loaded' = FALSE
    /\ geometry' = recycle_old_vertices(geometry)
    /\ max_iter' = new_max_iter
    /\ x_min' = image_dimensions[1]
    /\ x_max' = image_dimensions[2]
    /\ y_min' = image_dimensions[3]
    /\ y_max' = image_dimensions[4]
    /\ height' = resolution[1]
    /\ width' = resolution[2]
    /\ colormap' = new_colormap
    /\ dimensions_undo_list' = Append(undo_now, image_dimensions)
    /\ loading_text_visible' = TRUE
    /\ renders' = renders + 1

\* fresh_load_size as change_parameters computes it, after the recycle
fresh_load_size(resolution) ==
    resolution[1] * resolution[2]
        - (Len(geometry.existing_vertices) + Len(geometry.rendered_vertices))

\* __load_fresh_objects after its first sleep: the allocation loop
Allocate(t) ==
    /\ t.pc = "alloc"
    /\ geometry' = load_fresh_objects(geometry, t.fresh, height, width)
    /\ tasks' = Resume(tasks, t, [t EXCEPT !.pc = "render", !.fresh = 0])
    /\ UNCHANGED <<view, loaded, history, mouse_1_up, widgets, error, renders>>

\* What is left of a callback once its render has finished and
\* __load_new_mandelbrot sleeps: resize_box still sets the Undo button,
\* recall_mandelbrot_dimensions sleeps once more and then sets both buttons
\* (the two sleeps in a row are one wait here), the settings callbacks and
\* change_image_dimensions only return.
AfterRender(ts, t) ==
    IF t.kind = "resize_box" THEN Resume(ts, t, [t EXCEPT !.pc = "rendered"])
    ELSE IF t.kind = "recall_mandelbrot_dimensions"
    THEN Resume(ts, t, [t EXCEPT !.pc = "recall_ui"])
    ELSE Finish(ts, t)

\* __load_new_mandelbrot, entered after the second sleep of
\* __load_fresh_objects; a failed pop raises, which ends the callback with
\* loaded still False
Render(t) ==
    /\ t.pc = "render"
    /\ \E S \in {load_new_mandelbrot(geometry, height, width)} :
           /\ geometry' = S.g
           /\ IF S.err = "none"
              THEN /\ loaded' = TRUE
                   /\ loading_text_visible' = FALSE
                   /\ tasks' = AfterRender(tasks, t)
                   /\ error' = error
              ELSE /\ loaded' = FALSE
                   /\ loading_text_visible' = loading_text_visible
                   /\ tasks' = Finish(tasks, t)
                   /\ error' = S.err
    /\ UNCHANGED <<view, history, mouse_1_up, undo_background, redo_background, renders>>

\* resize_box after change_parameters has returned: the Undo button is
\* highlighted and the drag loop left
Return(t) ==
    /\ t.pc = "rendered"
    /\ undo_background' = White
    /\ tasks' = Finish(tasks, t)
    /\ UNCHANGED <<view, loaded, geometry, history, mouse_1_up, redo_background,
                   loading_text_visible, error, renders>>

\* Mandelbrot.load_recent_dimensions left by one of its two bare returns:
\* loaded has been set to False and nothing else is done
LoadRecentReturnsEarly(redo) ==
    IF redo THEN Len(dimensions_redo_list) = 0
    ELSE Len(dimensions_undo_list) <= 1

\* load_recent_dimensions whose undo pops the undo list once, not twice:
\* the view to load is read from the top and left there
load_recent_dimensions_single_pop(redo, new_max_iter, resolution, new_colormap) ==
    IF LoadRecentReturnsEarly(redo)
    THEN /\ loaded' = FALSE
         /\ UNCHANGED <<view, geometry, history, loading_text_visible, renders>>
    ELSE IF redo
    THEN /\ dimensions_redo_list' = Front(dimensions_redo_list)
         /\ change_parameters(new_max_iter, Last(dimensions_redo_list),
                              resolution, new_colormap, dimensions_undo_list)
    ELSE /\ dimensions_redo_list' =
                Append(dimensions_redo_list, Last(dimensions_undo_list))
         /\ change_parameters(new_max_iter, Last(Front(dimensions_undo_list)),
                              resolution, new_colormap,
                              Front(dimensions_undo_list))

\* load_recent_dimensions whose redo takes the oldest entry of the redo
\* list (pop(0)) where the code takes the newest (pop())
load_recent_dimensions_oldest_redo(redo, new_max_iter, resolution, new_colormap) ==
    IF LoadRecentReturnsEarly(redo)
    THEN /\ loaded' = FALSE
         /\ UNCHANGED <<view, geometry, history, loading_text_visible, renders>>
    ELSE IF redo
    THEN /\ dimensions_redo_list' = Tail(dimensions_redo_list)
         /\ change_parameters(new_max_iter, Head(dimensions_redo_list),
                              resolution, new_colormap, dimensions_undo_list)
    ELSE /\ dimensions_redo_list' =
                Append(dimensions_redo_list, Last(dimensions_undo_list))
         /\ change_parameters(new_max_iter, Last(Front(dimensions_undo_list)),
                              resolution, new_colormap,
                              Front(Front(dimensions_undo_list)))

load_recent_dimensions_undo_drops_top(redo, new_max_iter, resolution, new_colormap) == IF LoadRecentReturnsEarly(redo) THEN loaded' = FALSE /\ UNCHANGED <<view, geometry, history, loading_text_visible, renders>> ELSE IF redo THEN dimensions_redo_list' = Front(dimensions_redo_list) /\ change_parameters(new_max_iter, Last(dimensions_redo_list), resolution, new_colormap, dimensions_undo_list) ELSE dimensions_redo_list' = dimensions_redo_list /\ change_parameters(new_max_iter, Last(Front(dimensions_undo_list)), resolution, new_colormap, Front(Front(dimensions_undo_list)))

\* Mandelbrot.load_recent_dimensions up to the first yield of the
\* change_parameters it calls (everything but the task list)
load_recent_dimensions(redo, new_max_iter, resolution, new_colormap) ==
    IF LoadRecentReturnsEarly(redo)
    THEN /\ loaded' = FALSE
         /\ UNCHANGED <<view, geometry, history, loading_text_visible, renders>>
    ELSE IF redo
    THEN /\ dimensions_redo_list' = Front(dimensions_redo_list)
         /\ change_parameters(new_max_iter, Last(dimensions_redo_list),
                              resolution, new_colormap, dimensions_undo_list)
    ELSE /\ dimensions_redo_list' =
                Append(dimensions_redo_list, Last(dimensions_undo_list))
         /\ change_parameters(new_max_iter, Last(Front(dimensions_undo_list)),
                              resolution, new_colormap,
                              Front(Front(dimensions_undo_list)))

(* --------------------------- widget methods ---------------------------- *)
\* model cap: drags in progress will each render once, at their release
PendingDrags ==
    BagCardinality([d \in {u \in BagToSet(tasks) : u.pc = "drag"} |-> tasks[d]])
RenderRoom(cap) == renders + PendingDrags < cap

\* mouse positions scene.mouse.project may report
StartPts == {Origin}
MousePts == {Origin, <<R(1), R(1)>>}

\* current_box_height / current_box_width > 3 / 2 in JavaScript arithmetic:
\* h/0 is Infinity for h > 0 and 0/0 is NaN, which compares False
TooFlat(current_box_height, current_box_width) ==
    IF current_box_width[1] = 0 THEN current_box_height[1] > 0
    ELSE RLt(<<3, 2>>, RDiv(current_box_height, current_box_width))

opposite_corner_unsigned(starting_mouse_pos, current_mouse_pos) == IF TooFlat(RAbs(RSub(current_mouse_pos[2], starting_mouse_pos[2])), RAbs(RSub(current_mouse_pos[1], starting_mouse_pos[1]))) THEN <<RAdd(starting_mouse_pos[1], RDiv(RMul(RAbs(RSub(current_mouse_pos[2], starting_mouse_pos[2])), R(3)), R(2))), current_mouse_pos[2]>> ELSE <<current_mouse_pos[1], RAdd(starting_mouse_pos[2], RDiv(RMul(RAbs(RSub(current_mouse_pos[1], starting_mouse_pos[1])), R(2)), R(3)))>>

\* the aspect-locked corner computed by one pass of the drag loop
opposite_corner(starting_mouse_pos, current_mouse_pos) ==
    LET current_box_width == RAbs(RSub(current_mouse_pos[1], starting_mouse_pos[1]))
        current_box_height == RAbs(RSub(current_mouse_pos[2], starting_mouse_pos[2]))
        corner_sign_x == IF RLt(starting_mouse_pos[1], current_mouse_pos[1])
                         THEN R(1) ELSE R(-1)
        corner_sign_y == IF RLt(starting_mouse_pos[2], current_mouse_pos[2])
                         THEN R(1) ELSE R(-1)
    IN  IF TooFlat(current_box_height, current_box_width)
        THEN <<RAdd(starting_mouse_pos[1],
                    RDiv(RMul(RMul(corner_sign_x, current_box_height), R(3)), R(2))),
               current_mouse_pos[2]>>
        ELSE <<current_mouse_pos[1],
               RAdd(starting_mouse_pos[2],
                    RDiv(RMul(RMul(corner_sign_y, current_box_width), R(2)), R(3)))>>

selected_dimensions_uncentered(starting_mouse_pos, opposite_corner_pos) == <<RAdd(RMul(RDiv(RSub(x_max, x_min), R(width)), RMin(starting_mouse_pos[1], opposite_corner_pos[1])), x_min), RAdd(RMul(RDiv(RSub(x_max, x_min), R(width)), RMax(starting_mouse_pos[1], opposite_corner_pos[1])), x_min), RAdd(RMul(RDiv(RSub(y_max, y_min), R(height)), RMin(starting_mouse_pos[2], opposite_corner_pos[2])), y_min), RAdd(RMul(RDiv(RSub(y_max, y_min), R(height)), RMax(starting_mouse_pos[2], opposite_corner_pos[2])), y_min)>>

\* the complex-plane bounds of the selected box, from the view and
\* resolution current at the release
selected_dimensions(starting_mouse_pos, opposite_corner_pos) ==
    LET px_min == RAdd(RMin(starting_mouse_pos[1], opposite_corner_pos[1]),
                       RDiv(R(width), R(2)))
        px_max == RAdd(RMax(starting_mouse_pos[1], opposite_corner_pos[1]),
                       RDiv(R(width), R(2)))
        py_min == RAdd(RMin(starting_mouse_pos[2], opposite_corner_pos[2]),
                       RDiv(R(height), R(2)))
        py_max == RAdd(RMax(starting_mouse_pos[2], opposite_corner_pos[2]),
                       RDiv(R(height), R(2)))
        image_width == RSub(x_max, x_min)
        image_height == RSub(y_max, y_min)
    IN  <<RAdd(RMul(RDiv(image_width, R(width)), px_min), x_min),
          RAdd(RMul(RDiv(image_width, R(width)), px_max), x_min),
          RAdd(RMul(RDiv(image_height, R(height)), py_min), y_min),
          RAdd(RMul(RDiv(image_height, R(height)), py_max), y_min)>>

\* resize_box bound to mousedown, up to the first rate(10)
resize_box(p) ==
    /\ IF ~loaded
       THEN UNCHANGED prog
       ELSE /\ mouse_1_up' = FALSE
            /\ tasks' = Suspend(tasks, Task("resize_box", "drag", FALSE, p, p, 0))
            /\ UNCHANGED <<view, loaded, geometry, history, widgets, error, renders>>

\* one pass of the while loop of resize_box, after rate(10) returns, with
\* the mouse at p
DragLoop(t, p) ==
    /\ t.pc = "drag"
    /\ IF mouse_1_up
       THEN /\ change_parameters(max_iter,
                    selected_dimensions(t.start, t.opp),
                    <<height, width>>, colormap, dimensions_undo_list)
            /\ tasks' = Resume(tasks, t,
                              Task("resize_box", "alloc", FALSE, Origin, Origin,
                                   fresh_load_size(<<height, width>>)))
            /\ UNCHANGED <<dimensions_redo_list, mouse_1_up, undo_background,
                           redo_background, error>>
       ELSE /\ tasks' = Resume(tasks, t,
                              [t EXCEPT !.opp = opposite_corner(t.start, p)])
            /\ UNCHANGED <<view, loaded, geometry, history, mouse_1_up, widgets, error, renders>>

\* release_mouse_1 bound to mouseup
release_mouse_1 ==
    /\ mouse_1_up' = TRUE
    /\ UNCHANGED <<view, loaded, geometry, history, widgets, tasks, error, renders>>

recall_mandelbrot_dimensions_default_depth(redo) == IF ~loaded \/ (Len(dimensions_undo_list) = 1 /\ Len(dimensions_redo_list) = 0) THEN UNCHANGED prog ELSE load_recent_dimensions(redo, InitMaxIter, <<height, width>>, colormap) /\ tasks' = Suspend(tasks, IF LoadRecentReturnsEarly(redo) THEN Task("recall_mandelbrot_dimensions", "recall_ui", redo, Origin, Origin, 0) ELSE Task("recall_mandelbrot_dimensions", "alloc", redo, Origin, Origin, fresh_load_size(<<height, width>>))) /\ UNCHANGED <<mouse_1_up, undo_background, redo_background, error>>

\* recall_mandelbrot_dimensions bound to the Undo (redo = FALSE) and Redo
\* (redo = TRUE) buttons, up to its first yield
recall_mandelbrot_dimensions(redo) ==
    /\ IF \/ ~loaded
          \/ Len(dimensions_undo_list) = 1 /\ Len(dimensions_redo_list) = 0
       THEN UNCHANGED prog
       ELSE /\ load_recent_dimensions(redo, max_iter, <<height, width>>, colormap)
            /\ tasks' = Suspend(tasks,
                  IF LoadRecentReturnsEarly(redo)
                  THEN Task("recall_mandelbrot_dimensions", "recall_ui", redo,
                            Origin, Origin, 0)
                  ELSE Task("recall_mandelbrot_dimensions", "alloc", redo,
                            Origin, Origin, fresh_load_size(<<height, width>>)))
            /\ UNCHANGED <<mouse_1_up, undo_background, redo_background, error>>

\* the button highlighting at the end of recall_mandelbrot_dimensions
RecallUI(t) ==
    /\ t.pc = "recall_ui"
    /\ IF t.redo
       THEN /\ redo_background' =
                  IF Len(dimensions_redo_list) = 0 THEN Gray ELSE White
            /\ undo_background' = White
       ELSE /\ undo_background' =
                  IF Len(dimensions_undo_list) < 2 THEN Gray ELSE White
            /\ redo_background' = White
    /\ tasks' = Finish(tasks, t)
    /\ UNCHANGED <<view, loaded, geometry, history, mouse_1_up, loading_text_visible, error, renders>>

\* dimensions_undo_list.pop() on an empty list, in a settings callback. The
\* build decides which statement raises: the pop itself (nothing changed
\* yet), or image_dimensions[0] in change_parameters (after loaded, the
\* recycle and max_iter). Either way the callback ends there.
PopEmptyUndoList(new_max_iter) ==
    /\ error' = "dimensions_undo_list.pop"
    /\ \/ UNCHANGED <<view, loaded, geometry, history, mouse_1_up, widgets, tasks, renders>>
       \/ /\ loaded' = FALSE
          /\ geometry' = recycle_old_vertices(geometry)
          /\ max_iter' = new_max_iter
          /\ UNCHANGED <<x_min, x_max, y_min, y_max, height, width, colormap,
                         history, mouse_1_up, widgets, tasks, renders>>

SettingsChange_without_pop(kind, new_max_iter, resolution, new_colormap) == IF Len(dimensions_undo_list) = 0 THEN PopEmptyUndoList(new_max_iter) ELSE change_parameters(new_max_iter, Last(dimensions_undo_list), resolution, new_colormap, dimensions_undo_list) /\ tasks' = Suspend(tasks, Task(kind, "alloc", FALSE, Origin, Origin, fresh_load_size(resolution))) /\ UNCHANGED <<dimensions_redo_list, mouse_1_up, undo_background, redo_background, error>>

\* the common body of change_resolution, change_colormap and
\* change_search_depth once their guards have passed: pop the top of the
\* undo list and call change_parameters with it
SettingsChange(kind, new_max_iter, resolution, new_colormap) ==
    IF Len(dimensions_undo_list) = 0
    THEN PopEmptyUndoList(new_max_iter)
    ELSE /\ change_parameters(new_max_iter, Last(dimensions_undo_list), resolution,
                              new_colormap, Front(dimensions_undo_list))
         /\ tasks' = Suspend(tasks, Task(kind, "alloc", FALSE, Origin, Origin,
                                        fresh_load_size(resolution)))
         /\ UNCHANGED <<dimensions_redo_list, mouse_1_up, undo_background,
                        redo_background, error>>

Ignored == UNCHANGED prog

\* change_resolution bound to the resolution menu; index is evt.index + 1
change_resolution(index) ==
    /\ IF ~loaded THEN Ignored
       ELSE SettingsChange("change_resolution", max_iter,
                           resolution_choices[index], colormap)

\* change_colormap without its test of mandelbrot.loaded
change_colormap_unguarded(selected) ==
    SettingsChange("change_colormap", max_iter, <<height, width>>, selected)

\* change_colormap bound to the colormap menu
change_colormap(selected) ==
    /\ IF ~loaded THEN Ignored
       ELSE SettingsChange("change_colormap", max_iter, <<height, width>>, selected)

\* numbers typed into the Depth field: 0.5, 50, 50.5 and 1500
DepthInputs == {<<1, 2>>, R(50), <<101, 2>>, R(1500)}

\* int(number) of a JavaScript number: the fraction is cut off (the wrap to
\* 32 bits does not matter for numbers up to 1000)
int(number) ==
    IF number[1] >= 0 THEN number[1] \div number[2]
    ELSE -((-number[1]) \div number[2])

\* change_search_depth accepting every number of 1 or more
change_search_depth_no_upper_limit(number) ==
    /\ IF ~loaded THEN Ignored
       ELSE IF RLt(number, R(1)) THEN Ignored
       ELSE SettingsChange("change_search_depth", int(number), <<height, width>>,
                           colormap)

\* change_search_depth bound to the Depth input
change_search_depth(number) ==
    /\ IF ~loaded THEN Ignored
       ELSE IF RLt(number, R(1)) \/ RLt(R(1000), number) THEN Ignored
       ELSE SettingsChange("change_search_depth", int(number), <<height, width>>,
                           colormap)

(* ------------------------- dimensions text ----------------------------- *)
\* A text is a sequence of one-character strings.
RECURSIVE split_from(_, _, _, _)
split_from(string, separator, split_string, current_word) ==
    IF string = <<>> THEN Append(split_string, current_word)
    ELSE IF Head(string) = separator
    THEN split_from(Tail(string), separator, Append(split_string, current_word), <<>>)
    ELSE split_from(Tail(string), separator, split_string,
                    Append(current_word, Head(string)))

\* split(string, separator)
split(string, separator) == split_from(string, separator, <<>>, <<>>)

DigitChars == <<"0", "1", "2", "3", "4", "5", "6", "7", "8", "9">>
IsDigit(c) == \E d \in 1..10 : DigitChars[d] = c
DigitValue(c) == (CHOOSE d \in 1..10 : DigitChars[d] = c) - 1

RECURSIVE SkipSpaces(_)
SkipSpaces(t) == IF t # <<>> /\ Head(t) = " " THEN SkipSpaces(Tail(t)) ELSE t

\* reads the digits at the front of t: <<their value, how many, the rest>>
RECURSIVE ScanDigits(_, _, _)
ScanDigits(t, value, count) ==
    IF t # <<>> /\ IsDigit(Head(t))
    THEN ScanDigits(Tail(t), 10 * value + DigitValue(Head(t)), count + 1)
    ELSE <<value, count, t>>

RECURSIVE Pow10(_)
Pow10(k) == IF k = 0 THEN 1 ELSE 10 * Pow10(k - 1)

\* float(item) as Web VPython compiles it (parseFloat, ValueError on NaN):
\* leading blanks, an optional sign, digits with an optional fraction, and
\* whatever follows the number is ignored; nan when no number starts the
\* token (float raises ValueError). Exponents and Infinity are not modelled;
\* no text of DimensionTexts has them.
float(item) ==
    LET t0 == SkipSpaces(item)
        signed == t0 # <<>> /\ Head(t0) \in {"-", "+"}
        sign == IF t0 # <<>> /\ Head(t0) = "-" THEN -1 ELSE 1
        t1 == IF signed THEN Tail(t0) ELSE t0
        whole == ScanDigits(t1, 0, 0)
        dotted == whole[3] # <<>> /\ Head(whole[3]) = "."
        frac == IF dotted THEN ScanDigits(Tail(whole[3]), 0, 0) ELSE <<0, 0, <<>>>>
    IN  [nan |-> whole[2] + frac[2] = 0,
         value |-> Norm(sign * (whole[1] * Pow10(frac[2]) + frac[1]), Pow10(frac[2]))]

Chars(word) ==
    CASE word = "-2.5" -> <<"-", "2", ".", "5">>
      [] word = "1.0" -> <<"1", ".", "0">>
      [] word = "-1.25" -> <<"-", "1", ".", "2", "5">>
      [] word = "1.25" -> <<"1", ".", "2", "5">>
      [] word = "1" -> <<"1">>
      [] word = "0" -> <<"0">>
      [] word = ", " -> <<",", " ">>
      [] word = "x" -> <<"x">>

RECURSIVE Concat(_)
Concat(words) == IF words = <<>> THEN <<>> ELSE Chars(Head(words)) \o Concat(Tail(words))

\* texts typed into the dimensions field
DimensionTexts ==
    { Concat(<<"-2.5", ", ", "1.0", ", ", "-1.25", ", ", "1.25">>),
      Concat(<<"-2.5", ", ", "1.0">>),
      Concat(<<"1", ", ", "0", ", ", "0", ", ", "1">>),
      Concat(<<"-2.5", ", ", "1.0", ", ", "-1.25", ", ", "1.25", "x">>) }

\* the try block of change_image_dimensions: TRUE when it raises
InvalidDimensions(split_elements) ==
    \/ \E k \in DOMAIN split_elements : split_elements[k].nan
    \/ Len(split_elements) # 4
    \/ RLe(split_elements[2].value, split_elements[1].value)
    \/ RLe(split_elements[4].value, split_elements[3].value)

\* change_image_dimensions bound to the dimensions field
change_image_dimensions(text) ==
    /\ IF ~loaded THEN Ignored
       ELSE LET words == split(text, ",")
                split_elements == [k \in DOMAIN words |-> float(words[k])]
            IN  IF InvalidDimensions(split_elements) THEN Ignored
                ELSE /\ change_parameters(max_iter,
                            [k \in 1..4 |-> split_elements[k].value],
                            <<height, width>>, colormap, dimensions_undo_list)
                     /\ tasks' = Suspend(tasks,
                            Task("change_image_dimensions", "alloc", FALSE, Origin,
                                 Origin, fresh_load_size(<<height, width>>)))
                     /\ UNCHANGED <<dimensions_redo_list, mouse_1_up,
                                    undo_background, redo_background, error>>

(* ----------------------------- behaviours ------------------------------ *)
\* An event handled by its callback up to the callback's first yield. An
\* accepted event needs room (for one more suspended callback and for one
\* more render); an event met by a busy system is always possible.
OnMouseDown(room) ==
    \E p \in StartPts : (loaded => room) /\ resize_box(p) /\ Record("none") /\ UNCHANGED sample

OnMouseUp == release_mouse_1 /\ Record("none") /\ UNCHANGED sample

OnButton(room) ==
    \E redo \in BOOLEAN :
        /\ (loaded => room)
        /\ recall_mandelbrot_dimensions(redo)
        /\ Record(IF redo THEN "redo" ELSE "undo") /\ UNCHANGED sample

OnResolutionMenu(room) ==
    \E index \in DOMAIN resolution_choices :
        (loaded => room) /\ change_resolution(index) /\ Record("settings") /\ UNCHANGED sample

OnColormapMenu(room) ==
    \E selected \in ColormapMenu :
        (loaded => room) /\ change_colormap(selected) /\ Record("settings") /\ UNCHANGED sample

OnDepthInput(room) ==
    \E number \in DepthInputs :
        (loaded => room) /\ change_search_depth(number) /\ Record("settings") /\ UNCHANGED sample

OnDimensionsInput(room) ==
    \E text \in DimensionTexts :
        (loaded => room) /\ change_image_dimensions(text) /\ Record("zoom") /\ UNCHANGED sample

\* A suspended callback resumes and runs to its next yield or to its end.
Step ==
    \/ \E t \in BagToSet(tasks), p \in MousePts : DragLoop(t, p) /\ Record("zoom") /\ UNCHANGED sample
    \/ \E t \in BagToSet(tasks) : Allocate(t) /\ Record("none") /\ UNCHANGED sample
    \/ \E t \in BagToSet(tasks) : Render(t) /\ Record("none") /\ UNCHANGED sample
    \/ \E t \in BagToSet(tasks) : Return(t) /\ Record("none") /\ UNCHANGED sample
    \/ \E t \in BagToSet(tasks) : RecallUI(t) /\ Record("none") /\ UNCHANGED sample

\* Events arrive at any time, also while callbacks are suspended.
Room == BagCardinality(tasks) < MaxTasks /\ RenderRoom(MaxRenders)

Next ==
    \/ OnMouseDown(Room)
    \/ OnMouseUp
    \/ OnButton(Room)
    \/ OnResolutionMenu(Room)
    \/ OnColormapMenu(Room)
    \/ OnDepthInput(Room)
    \/ OnDimensionsInput(Room)
    \/ Step

Spec == Init /\ [][Next]_vars

\* Sequential use: an event arrives only when no callback is suspended
\* (the mouse release that ends a drag excepted).
RoomSeq == tasks = EmptyBag /\ RenderRoom(MaxRendersSeq)

NextSeq ==
    \/ OnMouseDown(RoomSeq)
    \/ OnMouseUp
    \/ OnButton(RoomSeq)
    \/ OnResolutionMenu(RoomSeq)
    \/ OnColormapMenu(RoomSeq)
    \/ OnDepthInput(RoomSeq)
    \/ OnDimensionsInput(RoomSeq)
    \/ Step

SpecSeq == Init /\ [][NextSeq]_vars

\* Sequential use of the mouse and the Undo and Redo buttons only.
RoomHist == tasks = EmptyBag /\ RenderRoom(MaxRendersHist)

NextHist ==
    \/ OnMouseDown(RoomHist)
    \/ OnMouseUp
    \/ OnButton(RoomHist)
    \/ Step

SpecHist == Init /\ [][NextHist]_vars

\* Sequential use of the mouse only, with more positions of the pointer:
\* scene.mouse.project reports any point of the canvas plane.
DragStarts == {Origin, <<R(-1), R(-1)>>, <<<<-3, 2>>, R(-1)>>}
DragPts ==
    {<<R(x), R(y)>> : x \in {-1, 1}, y \in {-1, 1}}
        \cup {Origin, <<R(0), R(1)>>, <<<<3, 2>>, R(1)>>}
RoomDrag == tasks = EmptyBag /\ RenderRoom(MaxRendersDrag)

OnDragDown ==
    \E p \in DragStarts : (loaded => RoomDrag) /\ resize_box(p) /\ Record("none") /\ UNCHANGED sample

OnDragMove ==
    \E t \in BagToSet(tasks), p \in DragPts : DragLoop(t, p) /\ Record("zoom") /\ UNCHANGED sample

NextDrag ==
    \/ OnDragDown
    \/ OnMouseUp
    \/ OnDragMove
    \/ \E t \in BagToSet(tasks) : Allocate(t) /\ Record("none") /\ UNCHANGED sample
    \/ \E t \in BagToSet(tasks) : Render(t) /\ Record("none") /\ UNCHANGED sample
    \/ \E t \in BagToSet(tasks) : Return(t) /\ Record("none") /\ UNCHANGED sample

SpecDrag == Init /\ [][NextDrag]_vars

\* One pixel at a time: the point c, the search depth and the scheme name are
\* drawn from small sets, then the escape loop runs one iteration per step
\* and the colour is assigned.
PixelPoints == {<<R(re), R(im)>> : re \in -2..2, im \in -1..1} \cup {<<<<3, 2>>, R(0)>>, <<<<-3, 2>>, <<1, 2>>>>}
PixelDepths == 1..MaxPixelDepth
SchemeNames == Range(colormap_choices) \cup {"jet", "Default", ""}

PixelStart ==
    /\ sample.pc = "idle"
    /\ \E c \in PixelPoints, depth \in PixelDepths, cmap \in SchemeNames :
          sample' = [NoPixel EXCEPT !.pc = "loop", !.c_re = c[1], !.c_im = c[2],
                                   !.max_iter = depth, !.cmap = cmap]

PixelIterate ==
    /\ sample.pc = "loop"
    /\ in_loop(sample)
    /\ sample' = iterate(sample)

PixelColor ==
    /\ sample.pc = "loop"
    /\ ~in_loop(sample)
    /\ sample' = assign_color(sample)

PixelDone ==
    /\ sample.pc = "done"
    /\ sample' = NoPixel

NextPixel ==
    \/ PixelStart /\ UNCHANGED <<prog, journal>>
    \/ PixelIterate /\ UNCHANGED <<prog, journal>>
    \/ PixelColor /\ UNCHANGED <<prog, journal>>
    \/ PixelDone /\ UNCHANGED <<prog, journal>>

SpecPixel == Init /\ [][NextPixel]_vars

(* ------------------------------ claims --------------------------------- *)
Ready == loaded /\ tasks = EmptyBag

\* C1: immediately after a fresh zoom completes (the render of a
\* change_parameters call made by a drag release or by an accepted
\* dimensions text, not by undo or redo), dimensions_redo_list is empty.
C1_RedoEmptyAfterFreshZoom ==
    [][\A t \in BagToSet(tasks) :
          (/\ t.kind \in {"resize_box", "change_image_dimensions"}
           /\ Render(t)
           /\ loaded')
              => dimensions_redo_list' = <<>>]_vars

\* C2: Undo requested in a ready state whose undo list holds one entry
\* changes nothing, whatever the redo list holds: the view, both lists and
\* loaded are as before.
C2_UndoAtFloorIsNoOp ==
    [][(/\ loaded
        /\ Len(dimensions_undo_list) = 1
        /\ recall_mandelbrot_dimensions(FALSE))
           => (loaded' /\ UNCHANGED <<view, history>>)]_vars

\* C3: Redo requested in a ready state whose redo list is empty changes
\* nothing, whatever the size of the undo list: the view, both lists and
\* loaded are as before.
C3_RedoAtTopIsNoOp ==
    [][(/\ loaded
        /\ Len(dimensions_redo_list) = 0
        /\ recall_mandelbrot_dimensions(TRUE))
           => (loaded' /\ UNCHANGED <<view, history>>)]_vars

\* C4: whenever the system is ready, dimensions_undo_list has at least one
\* entry and its bottom entry is the initial viewport.
C4_UndoListKeepsInitialView ==
    loaded => /\ Len(dimensions_undo_list) >= 1
              /\ dimensions_undo_list[1] = InitDimensions

\* a ready state reached by zooming and undoing back to the initial view
C4_Witness ==
    /\ loaded
    /\ renders >= 2
    /\ Len(dimensions_undo_list) = 1
    /\ Len(dimensions_redo_list) >= 1

\* C5: a successful undo from a ready state, directly followed by a redo,
\* restores the viewport that was current before the undo and leaves both
\* lists as they were before the undo.
C5_UndoRedoRoundTrip ==
    (journal.trip = "redo" /\ loaded) =>
        /\ Viewport = journal.before[1]
        /\ dimensions_undo_list = journal.before[2]
        /\ dimensions_redo_list = journal.before[3]

\* the redo of such a round trip has been rendered, from a view that was
\* not the initial one
C5_Witness ==
    /\ journal.trip = "redo"
    /\ Ready
    /\ Viewport # InitDimensions

\* C6: after n zooms Z1..Zn from the initial view Z0, then j <= n undos,
\* then i <= j redos, and nothing else, the viewport is Z(n-j+i).
C6_HistoryNavigation ==
    (journal.chain /\ loaded) =>
        Viewport = journal.zooms[Len(journal.zooms) - journal.undos + journal.redos]

\* three zooms to three different views, two undos and one redo
C6_Witness ==
    /\ journal.chain
    /\ Ready
    /\ Len(journal.zooms) = 4
    /\ Cardinality({journal.zooms[k] : k \in 1..4}) = 4
    /\ journal.undos = 2
    /\ journal.redos = 1

\* C7: every entry point invoked while loaded is False changes nothing of
\* the program state (view, lists, geometry, drag state, widgets).
C7_BusyIgnoresEntryPoints ==
    [][(/\ ~loaded
        /\ \/ \E p \in StartPts : resize_box(p)
           \/ \E index \in DOMAIN resolution_choices : change_resolution(index)
           \/ \E selected \in ColormapMenu : change_colormap(selected)
           \/ \E number \in DepthInputs : change_search_depth(number)
           \/ \E text \in DimensionTexts : change_image_dimensions(text)
           \/ \E redo \in BOOLEAN : recall_mandelbrot_dimensions(redo))
           => UNCHANGED prog]_vars

\* a busy state: a render is waiting to run while the events arrive
C7_Witness ==
    /\ ~loaded
    /\ \E t \in BagToSet(tasks) : t.pc = "render"
    /\ Len(dimensions_undo_list) >= 2

\* C8: every viewport that reaches change_parameters has x_min < x_max and
\* y_min < y_max.
C8_ViewportValid ==
    RLt(x_min, x_max) /\ RLt(y_min, y_max)

\* C9: in every render each pop from existing_vertices and from
\* existing_quads finds its list non-empty.
C9_EveryPopSucceeds ==
    error \notin {"existing_vertices.pop", "existing_quads.pop"}

\* C10: every vertex is in exactly one of rendered_vertices and
\* existing_vertices, once; every quad in exactly one of rendered_quads
\* and existing_quads, once.
C10_ObjectsInExactlyOneList ==
    LET G == geometry
    IN  /\ Range(G.rendered_vertices) \cup Range(G.existing_vertices)
              = DOMAIN G.vertex_pos
        /\ Len(G.rendered_vertices) + Len(G.existing_vertices) = Len(G.vertex_pos)
        /\ Range(G.rendered_quads) \cup Range(G.existing_quads)
              = DOMAIN G.quad_corners
        /\ Len(G.rendered_quads) + Len(G.existing_quads) = Len(G.quad_corners)

\* a render at the small preset after one at the large preset: both pairs
\* of lists hold objects
C10_Witness ==
    /\ loaded
    /\ Len(geometry.rendered_vertices) > 0
    /\ Len(geometry.existing_vertices) > 0
    /\ Len(geometry.rendered_quads) > 0
    /\ Len(geometry.existing_quads) > 0

\* the number of vertex objects and of quad objects the lists hold
TotalVertices == Len(geometry.existing_vertices) + Len(geometry.rendered_vertices)
TotalQuads == Len(geometry.existing_quads) + Len(geometry.rendered_quads)

\* C11: from one state to the next the number of vertices (pool plus
\* active) never decreases, and neither does the number of quads.
C11_ObjectTotalsNeverDecrease ==
    [][TotalVertices' >= TotalVertices /\ TotalQuads' >= TotalQuads]_vars

\* both totals have grown beyond those of the first render, and a later
\* render at the small preset has left most objects in the pool
C11_Witness ==
    /\ loaded
    /\ TotalVertices > 6
    /\ TotalQuads > 2
    /\ Len(geometry.rendered_vertices) = 6

\* A numeric token: blanks, an optional sign, digits with an optional
\* fraction, blanks, and nothing else.
Numeric(token) ==
    LET t0 == SkipSpaces(token)
        t1 == IF t0 # <<>> /\ Head(t0) \in {"-", "+"} THEN Tail(t0) ELSE t0
        whole == ScanDigits(t1, 0, 0)
        dotted == whole[3] # <<>> /\ Head(whole[3]) = "."
        frac == IF dotted THEN ScanDigits(Tail(whole[3]), 0, 0) ELSE <<0, 0, whole[3]>>
    IN  whole[2] + frac[2] > 0 /\ SkipSpaces(frac[3]) = <<>>

\* the four numbers of a text of four numeric tokens
Numbers(text) == [k \in 1..4 |-> float(split(text, ",")[k]).value]

\* exactly 4 numeric tokens with x_min < x_max and y_min < y_max
WellFormed(text) ==
    LET tokens == split(text, ",")
    IN  /\ Len(tokens) = 4
        /\ \A k \in 1..4 : Numeric(tokens[k])
        /\ RLt(Numbers(text)[1], Numbers(text)[2])
        /\ RLt(Numbers(text)[3], Numbers(text)[4])

\* C12: a dimensions text is accepted only if it splits on ',' into exactly
\* 4 numeric tokens with x_min < x_max and y_min < y_max; otherwise nothing
\* changes; an accepted text's viewport becomes current, a render starts
\* and the viewport is pushed on top of dimensions_undo_list.
C12_DimensionsTextValidated ==
    [][\A text \in DimensionTexts :
          (loaded /\ change_image_dimensions(text)) =>
              IF WellFormed(text)
              THEN /\ Viewport' = Numbers(text)
                   /\ dimensions_undo_list' =
                          Append(dimensions_undo_list, Numbers(text))
                   /\ ~loaded'
                   /\ renders' = renders + 1
              ELSE UNCHANGED prog]_vars

\* C13: a depth below 1 or above 1000 is rejected with nothing changed and
\* no render started, and max_iter is an integer in [1, 1000] in every
\* state.
C13_DepthInRange ==
    [][/\ \A number \in DepthInputs :
             (/\ loaded
              /\ RLt(number, R(1)) \/ RLt(R(1000), number)
              /\ change_search_depth(number))
                 => UNCHANGED prog
       /\ max_iter \in 1..1000
       /\ max_iter' \in 1..1000]_vars

\* a depth change has been accepted and rendered
C13_Witness ==
    /\ loaded
    /\ max_iter = 50


\* C14: for every pixel the escape-time loop keeps 0 <= n <= max_iter, and a
\* pixel that leaves the loop with n = max_iter is coloured exactly black
\* under every scheme name, with no call of colormaps.
C14_EscapeCountBoundedAndInsideBlack ==
    /\ sample.n \in 0..sample.max_iter
    /\ (sample.pc = "done" /\ sample.n = sample.max_iter) =>
          (sample.pixel_color = Black /\ sample.colormaps_calls = 0)

C14_Witness ==
    /\ sample.pc = "done"
    /\ sample.n = sample.max_iter
    /\ sample.max_iter = MaxPixelDepth
    /\ sample.cmap = "inferno"
    /\ sample.c_re = R(-1)


\* C16: colormaps called with a scheme name outside 'spectral', 'inferno',
\* 'viridis', 'plasma' and 'default' raises no error and returns exactly
\* what the 'default' scheme returns for the same input.
C16_UnknownSchemeIsDefault ==
    (/\ sample.pc = "done"
     /\ sample.colormaps_calls = 1
     /\ sample.cmap \notin Range(colormap_choices)) =>
        /\ sample.pixel_color # Raised
        /\ sample.pixel_color = colormaps(color_value(sample), "default")

C16_Witness ==
    /\ sample.pc = "done"
    /\ sample.colormaps_calls = 1
    /\ sample.cmap = "jet"
    /\ color_value(sample) = <<<<1, 2>>, <<1, 2>>, <<1, 2>>>>


\* C15: in every ready state the Undo button is white exactly when
\* dimensions_undo_list has at least 2 entries, and the Redo button is white
\* exactly when dimensions_redo_list has at least 1 entry.
C15_ButtonsShowStackSizes ==
    Ready =>
        /\ (undo_background = White) <=> (Len(dimensions_undo_list) >= 2)
        /\ (redo_background = White) <=> (Len(dimensions_redo_list) >= 1)


\* C17: at most one render is in progress at any time: under every
\* interleaving of the handlers at their yield points, a step that enters
\* change_parameters (it starts a render) is taken from a state where loaded
\* is True; in particular the release of a drag that began while ready
\* starts no render when another handler started one during the drag.
C17_RenderStartsOnlyWhenReady == [][renders' # renders => loaded]_vars


\* C18: every busy period ends: whenever loaded is False, a callback is
\* suspended in __load_fresh_objects or about to run __load_new_mandelbrot,
\* which sets loaded back to True. A state with loaded False and no such
\* callback stays busy for ever, since every entry point returns at once
\* while loaded is False.
C18_BusyHasRenderPending ==
    ~loaded => \E t \in BagToSet(tasks) : t.pc \in {"alloc", "render"}


Reverse(s) == [k \in 1..Len(s) |-> s[Len(s) + 1 - k]]
StackLine == dimensions_undo_list \o Reverse(dimensions_redo_list)

\* C19: a successful undo or redo only moves one entry between the lists:
\* dimensions_undo_list followed by the reversed dimensions_redo_list is the
\* same sequence before and after; undo moves exactly the top of the undo
\* list onto the redo list, redo moves exactly the top of the redo list onto
\* the undo list, and the restored viewport is the top of the undo list,
\* once.
C19_UndoRedoMoveOneEntry ==
    [][\A redo \in BOOLEAN :
          (/\ loaded
           /\ recall_mandelbrot_dimensions(redo)
           /\ renders' # renders) =>
             /\ StackLine' = StackLine
             /\ IF redo
                THEN /\ dimensions_undo_list' =
                           Append(dimensions_undo_list, Last(dimensions_redo_list))
                     /\ dimensions_redo_list' = Front(dimensions_redo_list)
                ELSE /\ dimensions_undo_list' = Front(dimensions_undo_list)
                     /\ dimensions_redo_list' =
                           Append(dimensions_redo_list, Last(dimensions_undo_list))
             /\ Viewport' = Last(dimensions_undo_list')]_vars

\* two zooms, then undos and a redo, all rendered: both lists are in use
C19_Witness ==
    /\ Ready
    /\ journal.undos >= 1
    /\ journal.redos >= 1
    /\ Len(dimensions_undo_list) >= 2
    /\ Len(dimensions_redo_list) >= 1
    /\ Cardinality(Range(StackLine)) = Len(StackLine)


SettingsKinds == {"change_resolution", "change_colormap", "change_search_depth"}

\* C20: a resolution, colormap or accepted depth change that starts its
\* render from a ready state leaves the viewport and both history lists as
\* they were, and changes no setting but its own; the allocation and the
\* render that complete it change neither the view nor the lists.
C20_SettingsChangeKeepsViewAndHistory ==
    [][/\ \A index \in DOMAIN resolution_choices :
             (loaded /\ renders' # renders /\ change_resolution(index)) =>
                 /\ UNCHANGED <<Viewport, history, max_iter, colormap>>
                 /\ <<height', width'>> = resolution_choices[index]
       /\ \A selected \in ColormapMenu :
             (loaded /\ renders' # renders /\ change_colormap(selected)) =>
                 /\ UNCHANGED <<Viewport, history, max_iter, height, width>>
                 /\ colormap' = selected
       /\ \A number \in DepthInputs :
             (loaded /\ renders' # renders /\ change_search_depth(number)) =>
                 /\ UNCHANGED <<Viewport, history, colormap, height, width>>
                 /\ max_iter' = int(number)
       /\ \A t \in BagToSet(tasks) :
             \/ UNCHANGED <<view, history>>
             \/ ~(t.kind \in SettingsKinds /\ (Allocate(t) \/ Render(t)))]_vars

\* a zoom, an undo and then a colormap change, all rendered
C20_Witness ==
    /\ Ready
    /\ renders = 3
    /\ journal.trip = "none"
    /\ colormap = "inferno"
    /\ Len(dimensions_redo_list) = 1
    /\ Viewport = Last(dimensions_undo_list)


Settings == <<max_iter, height, width, colormap>>

\* C21: a drag zoom, an undo and a redo change only the viewport and the
\* history lists: max_iter, height, width and colormap after the operation
\* equal their values immediately before it.
C21_ZoomUndoRedoKeepSettings ==
    [][/\ \A t \in BagToSet(tasks), p \in MousePts :
             (renders' # renders /\ t.kind = "resize_box" /\ DragLoop(t, p)) =>
                 Settings' = Settings
       /\ \A redo \in BOOLEAN :
             (renders' # renders /\ recall_mandelbrot_dimensions(redo)) =>
                 Settings' = Settings
       /\ \A t \in BagToSet(tasks) :
             \/ Settings' = Settings
             \/ ~(/\ t.kind \in {"resize_box", "recall_mandelbrot_dimensions"}
                  /\ (Allocate(t) \/ Render(t) \/ Return(t) \/ RecallUI(t)))]_vars

\* a depth change, then a zoom, then an undo, all rendered
C21_Witness ==
    /\ Ready
    /\ renders = 3
    /\ max_iter = 50
    /\ journal.trip = "undo"
    /\ Len(dimensions_redo_list) = 1


BoxWidth(t) == RAbs(RSub(t.opp[1], t.start[1]))
BoxHeight(t) == RAbs(RSub(t.opp[2], t.start[2]))
\* the corner is on the side of the starting point where the pointer p is
SameSide(t, p) ==
    /\ RLt(t.start[1], p[1]) <=> RLt(t.start[1], t.opp[1])
    /\ RLt(p[1], t.start[1]) <=> RLt(t.opp[1], t.start[1])
    /\ RLt(t.start[2], p[2]) <=> RLt(t.start[2], t.opp[2])
    /\ RLt(p[2], t.start[2]) <=> RLt(t.opp[2], t.start[2])
\* a pass of the drag loop of callback t that samples the pointer at p, off
\* the starting point in both axes
DragSample(t, p) ==
    /\ t.pc = "drag"
    /\ ~mouse_1_up
    /\ p[1] # t.start[1]
    /\ p[2] # t.start[2]
    /\ DragLoop(t, p)

\* C22 as stated: for every drag sample with non-zero raw width and height
\* the aspect-locked rectangle has height : width = 3 : 2, with the opposite
\* corner on the pointer's side of the starting point in both axes.
C22_BoxHeightToWidthIs3To2 ==
    [][\A t \in BagToSet(tasks), p \in DragPts :
          DragSample(t, p) =>
              \A u \in BagToSet(tasks') :
                  /\ RMul(R(2), BoxHeight(u)) = RMul(R(3), BoxWidth(u))
                  /\ SameSide(u, p)]_vars

\* C22 amended: the rectangle has width : height = 3 : 2 (height : width =
\* 2 : 3), with the opposite corner on the pointer's side of the starting
\* point in both axes.
C22_BoxWidthToHeightIs3To2 ==
    [][\A t \in BagToSet(tasks), p \in DragPts :
          DragSample(t, p) =>
              \A u \in BagToSet(tasks') :
                  /\ RMul(R(3), BoxHeight(u)) = RMul(R(2), BoxWidth(u))
                  /\ SameSide(u, p)]_vars

\* a drag from (-1, -1) sampled at (0, 1): raw height 2 on width 1, the
\* corner is moved to x = 2; and a drag down and to the left
C22_Witness ==
    \E t \in BagToSet(tasks) :
        /\ t.pc = "drag"
        /\ \/ t.start = <<R(-1), R(-1)>> /\ t.opp = <<R(2), R(1)>>
           \/ t.start = Origin /\ t.opp = <<R(-1), <<-2, 3>>>>


\* the complex point of the engine's mapping at screen position s
ComplexAt(s) == pixel_to_complex(pixel_at(s)[1], pixel_at(s)[2])
FullGrid(t) ==
    /\ t.start = <<RDiv(R(-width), R(2)), RDiv(R(-height), R(2))>>
    /\ t.opp = <<RDiv(R(width), R(2)), RDiv(R(height), R(2))>>

\* C23: the viewport computed at the end of a drag is the inverse of the
\* engine's pixel-to-complex mapping on the previous viewport and grid: its
\* bounds are the complex points the engine assigns to the screen positions
\* of the box's corners, the engine's mapping of pixel (px, py) is
\* x = x_min + px (x_max - x_min) / width, y = y_min + py (y_max - y_min) /
\* height, and selecting the full grid reproduces the previous viewport.
C23_DragEndInvertsPixelMapping ==
    [][\A t \in BagToSet(tasks) :
          (renders' # renders /\ t.pc = "drag" /\ \E p \in DragPts : DragLoop(t, p)) =>
              /\ \E lo \in {ComplexAt(<<RMin(t.start[1], t.opp[1]),
                                          RMin(t.start[2], t.opp[2])>>)},
                    hi \in {ComplexAt(<<RMax(t.start[1], t.opp[1]),
                                          RMax(t.start[2], t.opp[2])>>)} :
                     Viewport' = <<lo[1], hi[1], lo[2], hi[2]>>
              /\ \A px \in 0..(width - 1), py \in 0..(height - 1) :
                    pixel_to_complex(R(px), R(py)) =
                        <<RAdd(x_min, RMul(R(px), RDiv(RSub(x_max, x_min), R(width)))),
                          RAdd(y_min, RMul(R(py), RDiv(RSub(y_max, y_min), R(height))))>>
              /\ FullGrid(t) => Viewport' = Viewport]_vars

\* two drags rendered: the second one selected the full grid of the view
\* the first one had zoomed into
C23_Witness ==
    /\ Ready
    /\ renders = 2
    /\ Len(dimensions_undo_list) = 3
    /\ RLt(x_min, x_max) /\ RLt(y_min, y_max)
    /\ Viewport # InitDimensions
    /\ dimensions_undo_list[2] = Viewport


\* C24: after any sequence of operations the number of vertex objects, pooled
\* and active together, equals the largest height * width requested so far
\* (the initial grid included): change_parameters creates vertices only when
\* height * width exceeds the number existing, and then exactly the
\* difference.
C24_VerticesMatchLargestGrid ==
    /\ Ready => TotalVertices = journal.largest
    /\ TotalVertices <= journal.largest


\* C25: when a render has completed (loaded is True) the active lists hold
\* exactly height * width vertices and (height - 1) * (width - 1) quads,
\* every active quad is visible and every pooled quad is not.
C25_ActiveSetMatchesGrid ==
    loaded =>
        /\ Len(geometry.rendered_vertices) = height * width
        /\ Len(geometry.rendered_quads) = (height - 1) * (width - 1)
        /\ \A q \in Range(geometry.rendered_quads) : geometry.quad_visible[q]
        /\ \A q \in Range(geometry.existing_quads) : ~geometry.quad_visible[q]


\* the vertex written for pixel (px, py) by the render that has completed:
\* the loop is column-major, so it is entry px * height + py + 1 of
\* rendered_vertices
VertexOf(px, py) == geometry.rendered_vertices[px * height + py + 1]
ScreenPos(px, py) == <<RSub(R(px), RDiv(R(width), R(2))), RSub(R(py), RDiv(R(height), R(2)))>>
VisibleQuads == {q \in DOMAIN geometry.quad_visible : geometry.quad_visible[q]}

\* C26: after every completed render each cell (px, py) with 1 <= px < width
\* and 1 <= py < height has exactly one visible quad, whose corners are the
\* vertices written in this render for pixels (px, py), (px, py - 1),
\* (px - 1, py - 1) and (px - 1, py); no visible quad references a pooled
\* vertex or a vertex whose position is left from an earlier render.
C26_VisibleQuadsCoverGrid ==
    loaded =>
        /\ Len(geometry.rendered_vertices) >= height * width
        /\ \A px \in 0..(width - 1), py \in 0..(height - 1) :
              geometry.vertex_pos[VertexOf(px, py)] = ScreenPos(px, py)
        /\ \A px \in 1..(width - 1), py \in 1..(height - 1) :
              Cardinality({q \in VisibleQuads :
                  geometry.quad_corners[q] =
                      <<VertexOf(px, py), VertexOf(px, py - 1),
                        VertexOf(px - 1, py - 1), VertexOf(px - 1, py)>>}) = 1
        /\ Cardinality(VisibleQuads) = (height - 1) * (width - 1)
        /\ \A q \in VisibleQuads :
              Range(geometry.quad_corners[q]) \subseteq
                  {VertexOf(px, py) : px \in 0..(width - 1), py \in 0..(height - 1)}


\* C27: whenever the system is ready, the top of dimensions_undo_list is the
\* current viewport [x_min, x_max, y_min, y_max], so the settings handlers,
\* which pop the list to obtain the viewport, re-render the view displayed.
C27_UndoTopIsViewport ==
    Ready =>
        /\ Len(dimensions_undo_list) >= 1
        /\ Last(dimensions_undo_list) = Viewport

\* a zoom and an undo, all rendered, then a settings change that popped the
\* list and pushed its top back
C27_Witness ==
    /\ Ready
    /\ renders = 3
    /\ journal.trip = "none"
    /\ height = resolution_choices[2][1]
    /\ Len(dimensions_redo_list) = 1
    /\ Last(dimensions_undo_list) = Viewport

====
